---- MODULE Spec2Model ----
(***************************************************************************)
(* Model of resources/password.go (PasswordRes): the CheckApply converger  *)
(* over the persisted token, and the Watch event loop.                     *)
(*                                                                         *)
(* Strings are sequences of one-character strings.  The persisted token is *)
(* the raw byte content of the file at obj.path, or no file at all.        *)
(***************************************************************************)
EXTENDS Integers, Sequences, FiniteSets, TLC

\* ------------------------------------------------------------------ bounds
\* Largest configured obj.Length explored.
MaxLength == 2

\* Number of Watch invocations that get to register, over all callers.
MaxWatches == 3
\* Milliseconds that pass in one step of the modelled clock.
TickMs == 250

\* --------------------------------------------------------------- constants
\* const alphabet
alphabet ==
  << "a", "b", "c", "d", "e", "f", "g", "h", "i", "j", "k", "l", "m",
     "n", "o", "p", "q", "r", "s", "t", "u", "v", "w", "x", "y", "z",
     "A", "B", "C", "D", "E", "F", "G", "H", "I", "J", "K", "L", "M",
     "N", "O", "P", "Q", "R", "S", "T", "U", "V", "W", "X", "Y", "Z" >>

\* const newline
newline == <<"\n">>

\* Width of the Length field and of the length computed by check().
Uint16 == 65536

\* time.Duration(500) * time.Millisecond, the delay of the startup timer.
StartupDelay == 500

\* The goroutines that call Watch on the one resource.
Callers == {"g1", "g2"}

\* Characters strings.TrimSpace strips that occur in the model.
Space == {" ", "\n"}

VARIABLES
  Length,        \* obj.Length (configuration)
  Saved,         \* obj.Saved (configuration)
  CheckRecovery, \* obj.CheckRecovery (configuration)
  Password,      \* obj.Password: nil pointer or pointer to a string
  file,          \* the file at obj.path: absent, or its raw content
  ioFault,       \* storage is unreadable: os.Open fails, but not with not-exist
  settled,       \* what the previous CheckApply call did, "none" once storage
                 \* was changed from outside since
  last,          \* record of the most recent CheckApply call
  input,         \* the string handed to check() when it is called on its own
  returned,      \* what check() or generate() called on its own returned
  watching,      \* BaseRes: the flag IsWatching reads and SetWatching sets
  recWatcher,    \* obj.recWatcher: 0 (nil) or the watcher it points to
  registered,    \* converger: the UIDs registered
  converged,     \* converger: the converged flag of each UID
  unregistered,  \* converger: how often Unregister was called on each UID
  open,          \* recwatch: the watchers created and not closed
  closed,        \* recwatch: how often Close was called on each watcher
  nextId,        \* the next UID (and watcher) to be created
  crashed,       \* the program died of a nil dereference
  pc,            \* where each caller is in Watch
  cuid,          \* Watch local: cuid
  startup,       \* Watch local: startup
  send,          \* Watch local: send
  defers,        \* Watch: the deferred calls, in the order of the defer statements
  armed,         \* ms since the channel of Startup(startup) was made
  notified,      \* an outward notify was attempted since Watch entry
  startups,      \* how often the startup case was taken since Watch entry
  lastRet,       \* how the last Watch invocation of each caller returned
  hist           \* what each caller's Watch did since its last wake-up

wVars ==
  <<watching, recWatcher, registered, converged, unregistered, open, closed,
    nextId, crashed, pc, cuid, startup, send, defers, armed, notified,
    startups, lastRet, hist>>

fnVars == <<input, returned>>

caVars ==
  <<Length, Saved, CheckRecovery, Password, file, ioFault, settled, last, fnVars>>

\* ----------------------------------------------------------------- values
NilPtr == [nil |-> TRUE, val |-> <<>>]
Ptr(s) == [nil |-> FALSE, val |-> s]

NoFile == [exists |-> FALSE, data |-> <<>>]
FileOf(d) == [exists |-> TRUE, data |-> d]

\* n copies of the character ch.
Rep(n, ch) == [i \in 1..n |-> ch]

\* The contents the file at obj.path is found with when the program did not
\* put them there, for target length n: empty, the empty token as written, a
\* token of n accepted characters (with and without the newline, and padded
\* with a blank), a second such token, a token one character too long, one
\* too short, and one with a character outside the alphabet.
DiskContents(n) ==
  { <<>>, newline,
    Rep(n, "a") \o newline, Rep(n, "a"), <<" ">> \o Rep(n, "a") \o newline,
    Rep(n, "Y") \o newline,
    Rep(n + 1, "a") \o newline,
    Rep(IF n > 0 THEN n - 1 ELSE 0, "Y") \o newline,
    Rep(IF n > 0 THEN n - 1 ELSE 0, "a") \o <<"1">> \o newline }

\* The states storage can be in when the program did not put it there.
DiskStates(n) == {NoFile} \cup {FileOf(d) : d \in DiskContents(n)}

\* ------------------------------------------------------- strings.TrimSpace
RECURSIVE TrimLeft(_)
TrimLeft(s) ==
  IF s = <<>> THEN s
  ELSE IF Head(s) \in Space THEN TrimLeft(Tail(s)) ELSE s

RECURSIVE TrimRight(_)
TrimRight(s) ==
  IF s = <<>> THEN s
  ELSE IF s[Len(s)] \in Space THEN TrimRight(SubSeq(s, 1, Len(s) - 1)) ELSE s

TrimSpace(s) == TrimRight(TrimLeft(s))

\* ------------------------------------------------------------------ read()
read(f) ==
  IF ioFault THEN [val |-> <<>>, err |-> "io"]
  ELSE IF ~f.exists THEN [val |-> <<>>, err |-> "notexist"]
  ELSE [val |-> TrimSpace(f.data), err |-> "nil"]

\* ----------------------------------------------------------------- write()
\* failAt names the call of write() that fails, c the bytes file.Write wrote
\* before it failed.  os.Create truncates the file it opens.
WriteFails == {"none", "create", "write", "sync"}

write(f, password, failAt, c) ==
  LET bytes == password \o newline
  IN  IF failAt = "create" THEN [file |-> f, err |-> "create"]
      ELSE IF failAt = "write"
        THEN [file |-> FileOf(SubSeq(bytes, 1, c)), err |-> "write"]
      ELSE IF failAt = "sync" THEN [file |-> FileOf(bytes), err |-> "sync"]
      ELSE [file |-> FileOf(bytes), err |-> "nil"]

\* -------------------------------------------------------------- generate()
max == Len(alphabet) - 1

\* rand.Int(rand.Reader, big.NewInt(n)): a value in [0, n).
RandInt(n) == 0..(n - 1)

\* The draws CheckApply is explored with: the least and the greatest value
\* rand.Int can return.
Drawn(n) == {ix \in RandInt(n) : ix = 0 \/ ix = n - 1}

\* The outputs the loop of generate() can build in i iterations.
RECURSIVE GenLoop(_)
GenLoop(i) ==
  IF i = 0 THEN {<<>>}
  ELSE {Append(output, alphabet[ix + 1]) : output \in GenLoop(i - 1), ix \in Drawn(max)}

GenChecks(output) ==
  IF output = <<>> THEN [val |-> <<>>, err |-> "empty"]
  ELSE IF (Len(output) % Uint16) # Length THEN [val |-> <<>>, err |-> "short"]
  ELSE [val |-> output, err |-> "nil"]

\* Every result generate() can return; rand.Int can fail in any iteration.
generate ==
  {GenChecks(output) : output \in GenLoop(Length)}
    \cup (IF Length > 0 THEN {[val |-> <<>>, err |-> "rand"]} ELSE {})

\* ----------------------------------------------------------------- check()
InAlphabet(ch) == \E j \in 1..Len(alphabet) : ch = alphabet[j]

check(value) ==
  LET length == Len(value) % Uint16
  IN  IF ~Saved /\ length = 0 THEN "nil"
      ELSE IF ~Saved /\ length # 0 THEN "notempty"
      ELSE IF length # Length THEN "length"
      ELSE IF \E i \in 1..length : ~InAlphabet(value[i]) THEN "char"
      ELSE "nil"

\* ------------------------------------------------------------ CheckApply()
Ret(ok, err, f, p, gen, wrote) ==
  [checkOK |-> ok, err |-> err, file |-> f, Password |-> p,
   generated |-> gen, wrote |-> wrote]

\* Lines 248-277: the read, the check and the generate/write decisions.
\* fatal is "nil" or the error CheckApply returns at once.
Decide(refresh) ==
  LET rd       == read(file)
      exists   == rd.err = "nil"
      password == rd.val
      chk      == IF exists THEN check(password) ELSE "nil"
      p        == Password
  IN  [fatal    |-> IF rd.err = "io" THEN "read"
                    ELSE IF chk # "nil" /\ ~CheckRecovery THEN "check"
                    ELSE "nil",
       exists   |-> exists,
       password |-> password,
       generate |-> chk # "nil" \/ refresh \/ ~exists \/ (Saved /\ password = <<>>),
       write    |-> chk # "nil" \/ ~exists \/ (Saved /\ (~p.nil /\ p.val # password))]

\* Mutant of NothingToDo: the pending write is not looked at.
NothingToDo_IgnoresWrite(refresh, d) ==
  ~refresh /\ d.exists /\ ~d.generate

\* Line 279: nothing to do, done!
NothingToDo(refresh, d) ==
  ~refresh /\ d.exists /\ ~d.generate /\ ~d.write

\* Mutant of Write2: a generated password is written only when a write was
\* pending anyway.
Write2_OnlyPending(d) == d.write

\* Lines 288-292: a generated password is written out too.
Write2(d) ==
  d.write \/ (d.generate /\ (Saved \/ (~Saved /\ d.password # <<>>)))

\* Mutant of NewPassword: the generated password is dropped.
NewPassword_KeepsOld(d, gen) == d.password

\* Lines 296, 301: the password that is saved in memory.
NewPassword(d, gen) == IF d.generate THEN gen.val ELSE d.password

\* Mutant of Output: the password is written out in token-only mode too.
Output_AlwaysPassword(d, gen) == NewPassword(d, gen)

\* Lines 303-310: the string to write out.
Output(d, gen) == IF Saved THEN NewPassword(d, gen) ELSE <<>>

\* Mutant of Apply: the password is saved in memory before the result of
\* generate() is looked at.
Apply_SavesBeforeCheck(d, gen, failAt, c) ==
  LET w == write(file, Output(d, gen), failAt, c)
  IN  IF d.generate /\ gen.err # "nil"
        THEN Ret(FALSE, "generate", file, Ptr(gen.val), FALSE, FALSE)
      ELSE IF Write2(d) /\ w.err # "nil"
        THEN Ret(FALSE, "write", w.file, Ptr(NewPassword(d, gen)), d.generate, TRUE)
      ELSE IF Write2(d)
        THEN Ret(FALSE, "nil", w.file, Ptr(NewPassword(d, gen)), d.generate, TRUE)
      ELSE Ret(FALSE, "nil", file, Ptr(NewPassword(d, gen)), d.generate, FALSE)

\* Lines 288-318: generate, save in memory, write.
Apply(d, gen, failAt, c) ==
  LET w == write(file, Output(d, gen), failAt, c)
  IN  IF d.generate /\ gen.err # "nil"
        THEN Ret(FALSE, "generate", file, Password, FALSE, FALSE)
      ELSE IF Write2(d) /\ w.err # "nil"
        THEN Ret(FALSE, "write", w.file, Ptr(NewPassword(d, gen)), d.generate, TRUE)
      ELSE IF Write2(d)
        THEN Ret(FALSE, "nil", w.file, Ptr(NewPassword(d, gen)), d.generate, TRUE)
      ELSE Ret(FALSE, "nil", file, Ptr(NewPassword(d, gen)), d.generate, FALSE)

\* Mutant of DryRun: the apply flag is not looked at.
DryRun_Ignored(apply) == FALSE

\* Line 284: a dry run stops before any change.
DryRun(apply) == ~apply

\* The whole of CheckApply(apply) for one choice of its inputs and of the
\* outcomes of the calls it makes.
CheckApplyRun(apply, refresh, gen, failAt, c) ==
  LET d == Decide(refresh)
  IN  IF d.fatal # "nil" THEN Ret(FALSE, d.fatal, file, Password, FALSE, FALSE)
      ELSE IF NothingToDo(refresh, d) THEN Ret(TRUE, "nil", file, Password, FALSE, FALSE)
      ELSE IF DryRun(apply) THEN Ret(FALSE, "nil", file, Password, FALSE, FALSE)
      ELSE Apply(d, gen, failAt, c)

\* What the claims observe of the state a call starts from.
Stored(f) == TrimSpace(f.data)

Accepted(value) ==
  \/ ~Saved /\ value = <<>>
  \/ /\ Saved
     /\ Len(value) = Length
     /\ \A i \in 1..Len(value) : value[i] \in {alphabet[j] : j \in 1..Len(alphabet)}

Observe(f, p, fault) ==
  [fault   |-> fault,
   exists  |-> f.exists,
   valid   |-> f.exists /\ Accepted(Stored(f)),
   empty   |-> f.exists /\ Stored(f) = <<>>,
   differs |-> f.exists /\ ~p.nil /\ p.val # Stored(f)]

NoCall ==
  [called |-> FALSE, apply |-> FALSE, refresh |-> FALSE, checkOK |-> FALSE,
   err |-> "nil", generated |-> FALSE, wrote |-> FALSE, prev |-> "none",
   fileChanged |-> FALSE, cacheChanged |-> FALSE,
   pre |-> Observe(NoFile, NilPtr, FALSE)]

\* What a finished call leaves for the next one to start from.
Outcome(apply, r) ==
  IF r.checkOK THEN "ok"
  ELSE IF apply /\ r.err = "nil" THEN "applied"
  ELSE "other"

\* The results of the calls CheckApply makes, for the calls it gets to make:
\* generate() only past line 288, write() only after generate() succeeded.
NotCalled == [val |-> <<>>, err |-> "nil"]

GenResults(apply, refresh, d) ==
  IF d.fatal = "nil" /\ ~NothingToDo(refresh, d) /\ apply /\ d.generate
    THEN generate ELSE {NotCalled}

WriteResults(apply, refresh, d, gen) ==
  IF d.fatal = "nil" /\ ~NothingToDo(refresh, d) /\ apply /\ gen.err = "nil" /\ Write2(d)
    THEN {<<"none", 0>>, <<"create", 0>>, <<"sync", 0>>}
           \cup {<<"write", c>> : c \in 0..(Len(Output(d, gen) \o newline) - 1)}
    ELSE {<<"none", 0>>}

CheckApply(apply, refresh) ==
  LET d == Decide(refresh)
  IN  \E gen \in GenResults(apply, refresh, d) :
        \E wr \in WriteResults(apply, refresh, d, gen) :
          LET r == CheckApplyRun(apply, refresh, gen, wr[1], wr[2])
          IN  /\ file' = r.file
              /\ Password' = r.Password
              /\ settled' = Outcome(apply, r)
              /\ last' = [called |-> TRUE, apply |-> apply, refresh |-> refresh,
                          checkOK |-> r.checkOK, err |-> r.err,
                          generated |-> r.generated, wrote |-> r.wrote,
                          prev |-> settled,
                          fileChanged |-> r.file # file,
                          cacheChanged |-> r.Password # Password,
                          pre |-> Observe(file, Password, ioFault)]
              /\ UNCHANGED <<Length, Saved, CheckRecovery, ioFault, fnVars>>
              /\ UNCHANGED wVars

\* The token is edited, replaced or removed from outside the program, or
\* storage starts or stops failing.
ExternalChange ==
  /\ \/ \E f \in DiskStates(Length) \ {file} : file' = f /\ ioFault' = ioFault
     \/ file' = file /\ ioFault' = ~ioFault
  /\ settled' = "none"
  /\ last' = NoCall
  /\ UNCHANGED <<Length, Saved, CheckRecovery, Password, fnVars>>
  /\ UNCHANGED wVars

\* ------------------------------------- check() and generate() on their own
NoResult == [fn |-> "none", err |-> "nil", vals |-> {}]

\* The strings of at most n characters over the characters of cs.
RECURSIVE SeqsUpTo(_, _)
SeqsUpTo(cs, n) ==
  IF n = 0 THEN {<<>>}
  ELSE LET shorter == SeqsUpTo(cs, n - 1)
       IN  shorter \cup {Append(v, ch) : v \in {w \in shorter : Len(w) = n - 1}, ch \in cs}

\* The strings check() is called with for target length n: every string of
\* up to n + 1 characters over two letters and a digit, and strings of
\* 65536 and more characters, whose length does not fit the uint16 of
\* line 145.
CheckValues(n) ==
  SeqsUpTo({"a", "Z", "1"}, n + 1)
    \cup {Rep(Uint16 + k, "a") : k \in 0..n}
    \cup {Rep(Uint16 + n - 1, "a") \o <<"1">>}

\* obj.check(value)
Check ==
  /\ returned' = [fn |-> "check", err |-> check(input), vals |-> {}]
  /\ UNCHANGED <<Length, Saved, CheckRecovery, Password, file, ioFault,
                 settled, last, input>>
  /\ UNCHANGED wVars

\* The outputs the loop of generate() can build in i iterations, over every
\* value rand.Int can return.
RECURSIVE GenOutputs(_)
GenOutputs(i) ==
  IF i = 0 THEN {<<>>}
  ELSE {Append(output, alphabet[ix + 1]) : output \in GenOutputs(i - 1), ix \in RandInt(max)}

\* obj.generate(): the set of the passwords it can return.
Generate ==
  /\ returned' = [fn |-> "generate", err |-> "nil",
                  vals |-> {GenChecks(output).val :
                             output \in {o \in GenOutputs(Length) : GenChecks(o).err = "nil"}}]
  /\ UNCHANGED <<Length, Saved, CheckRecovery, Password, file, ioFault,
                 settled, last, input>>
  /\ UNCHANGED wVars

InitCheckApply ==
  /\ Length \in 0..MaxLength
  /\ Saved \in BOOLEAN
  /\ CheckRecovery \in BOOLEAN
  /\ Password = NilPtr
  /\ file \in DiskStates(Length)
  /\ ioFault = FALSE
  /\ settled = "none"
  /\ last = NoCall
  /\ input = <<>>
  /\ returned = NoResult

\* ------------------------------------------------------------------ Watch
Ids == 1..MaxWatches

NoRet == [path |-> "none", err |-> FALSE, watching |-> FALSE]

\* Since the select last woke up: the source handled, the UID of the
\* invocation, its converged flag and the send variable as the handler left
\* them, whether it called obj.StateOK(false), the calls of DoSend made and
\* the answer to the last.
NoHist ==
  [src |-> "none", uid |-> 0, conv |-> FALSE, dirty |-> FALSE, sched |-> FALSE,
   sends |-> 0, ans |-> "none"]

InitWatch ==
  /\ watching = FALSE
  /\ recWatcher = 0
  /\ registered = {}
  /\ converged = [u \in Ids |-> FALSE]
  /\ unregistered = [u \in Ids |-> 0]
  /\ open = {}
  /\ closed = [w \in Ids |-> 0]
  /\ nextId = 1
  /\ crashed = FALSE
  /\ pc = [g \in Callers |-> "idle"]
  /\ cuid = [g \in Callers |-> 0]
  /\ startup = [g \in Callers |-> FALSE]
  /\ send = [g \in Callers |-> FALSE]
  /\ defers = [g \in Callers |-> <<>>]
  /\ armed = [g \in Callers |-> 0]
  /\ notified = [g \in Callers |-> FALSE]
  /\ startups = [g \in Callers |-> 0]
  /\ lastRet = [g \in Callers |-> NoRet]
  /\ hist = [g \in Callers |-> NoHist]

\* What the deferred calls act on.
Shared ==
  [watching |-> watching, registered |-> registered, converged |-> converged,
   unregistered |-> unregistered, open |-> open, closed |-> closed,
   crashed |-> crashed]

\* One deferred call: obj.SetWatching(false), cuid.Unregister() or
\* obj.recWatcher.Close() on the watcher the defer statement read.
RunDefer(d, S) ==
  IF d.call = "SetWatching" THEN [S EXCEPT !.watching = FALSE]
  ELSE IF d.call = "Unregister"
    THEN [S EXCEPT !.registered = @ \ {d.arg},
                   !.converged[d.arg] = FALSE,
                   !.unregistered[d.arg] = @ + 1]
  ELSE IF d.arg = 0 THEN [S EXCEPT !.crashed = TRUE]
  ELSE [S EXCEPT !.open = @ \ {d.arg}, !.closed[d.arg] = @ + 1]

\* The deferred calls run last in, first out.
RECURSIVE RunDefers(_, _)
RunDefers(ds, S) ==
  IF ds = <<>> THEN S
  ELSE RunDefers(SubSeq(ds, 1, Len(ds) - 1), RunDefer(ds[Len(ds)], S))

\* The deferred calls of g run; its locals are gone.
Unwind(g, S) ==
  /\ watching' = S.watching
  /\ registered' = S.registered
  /\ converged' = S.converged
  /\ unregistered' = S.unregistered
  /\ open' = S.open
  /\ closed' = S.closed
  /\ crashed' = S.crashed
  /\ defers' = [defers EXCEPT ![g] = <<>>]
  /\ cuid' = [cuid EXCEPT ![g] = 0]
  /\ startup' = [startup EXCEPT ![g] = FALSE]
  /\ send' = [send EXCEPT ![g] = FALSE]
  /\ armed' = [armed EXCEPT ![g] = 0]
  /\ notified' = [notified EXCEPT ![g] = FALSE]
  /\ startups' = [startups EXCEPT ![g] = 0]

\* Watch returns: its deferred calls run, and the caller is outside Watch.
\* C is the converged flags as the returning path left them.  A deferred
\* Close on a nil watcher ends the program instead.
Return(g, path, err, C) ==
  LET S == RunDefers(defers[g], [Shared EXCEPT !.converged = C])
  IN  /\ Unwind(g, S)
      /\ pc' = [pc EXCEPT ![g] = IF S.crashed THEN "panic" ELSE "idle"]
      /\ lastRet' = [lastRet EXCEPT ![g] =
                      IF S.crashed THEN @
                      ELSE [path |-> path, err |-> err, watching |-> S.watching]]
      /\ UNCHANGED <<recWatcher, nextId>>

\* cuid.SetConverged(b)
SetConverged(g, b) == [converged EXCEPT ![cuid[g]] = b]

\* The select woke up on src and its case ran, leaving the converged flags C.
Handled(g, src, C, dirty, sched) ==
  hist' = [hist EXCEPT ![g] =
            [src |-> src, uid |-> cuid[g], conv |-> C[cuid[g]], dirty |-> dirty,
             sched |-> sched, sends |-> 0, ans |-> "none"]]

\* DoSend was called and answered r.
Sent(g, r) ==
  hist' = [hist EXCEPT ![g].sends = @ + 1,
                       ![g].ans = IF r.err THEN "nack"
                                  ELSE IF r.exit THEN "exit" ELSE "ack"]

\* Mutant of Loop: the loop goes back to its select with the send pending.
Loop_DropsSend(g, C, sendNow) ==
  /\ converged' = C
  /\ send' = [send EXCEPT ![g] = sendNow]
  /\ pc' = [pc EXCEPT ![g] = "select"]
  /\ armed' = [armed EXCEPT ![g] = 0]
  /\ UNCHANGED <<watching, recWatcher, registered, unregistered, open, closed,
                 nextId, crashed, cuid, defers, lastRet>>

\* The loop goes round: with a send pending (lines 230-236) it gets to
\* DoSend, else it is at its select again, where Startup(startup) makes a
\* new channel.
Loop(g, C, sendNow) ==
  /\ converged' = C
  /\ send' = [send EXCEPT ![g] = sendNow]
  /\ pc' = [pc EXCEPT ![g] = IF sendNow THEN "send" ELSE "select"]
  /\ armed' = [armed EXCEPT ![g] = IF sendNow THEN @ ELSE 0]
  /\ UNCHANGED <<watching, recWatcher, registered, unregistered, open, closed,
                 nextId, crashed, cuid, defers, lastRet>>

\* Mutant of WatchCall: the deferred SetWatching(false) is in place before
\* the test of IsWatching.
WatchCall_ClearsFlag(g) ==
  /\ ~crashed
  /\ UNCHANGED caVars
  /\ pc[g] = "idle"
  /\ IF watching
       THEN /\ lastRet' = [lastRet EXCEPT ![g] =
                            [path |-> "already", err |-> FALSE, watching |-> FALSE]]
            /\ watching' = FALSE
            /\ UNCHANGED pc
       ELSE /\ nextId <= MaxWatches
            /\ pc' = [pc EXCEPT ![g] = "entered"]
            /\ lastRet' = [lastRet EXCEPT ![g] = NoRet]
            /\ UNCHANGED watching
  /\ hist' = [hist EXCEPT ![g] = NoHist]
  /\ UNCHANGED <<recWatcher, registered, converged, unregistered,
                 open, closed, nextId, crashed, cuid, startup, send, defers,
                 armed, notified, startups>>

\* Line 172: the test of IsWatching; when it is set Watch returns at once.
WatchCall(g) ==
  /\ ~crashed
  /\ UNCHANGED caVars
  /\ pc[g] = "idle"
  /\ IF watching
       THEN /\ lastRet' = [lastRet EXCEPT ![g] =
                            [path |-> "already", err |-> FALSE, watching |-> watching]]
            /\ UNCHANGED pc
       ELSE /\ nextId <= MaxWatches
            /\ pc' = [pc EXCEPT ![g] = "entered"]
            /\ lastRet' = [lastRet EXCEPT ![g] = NoRet]
  /\ hist' = [hist EXCEPT ![g] = NoHist]
  /\ UNCHANGED <<watching, recWatcher, registered, converged, unregistered,
                 open, closed, nextId, crashed, cuid, startup, send, defers,
                 armed, notified, startups>>

\* Lines 175-180: SetWatching(true), Register(), their defers, startup.
WatchEnter(g) ==
  /\ ~crashed
  /\ UNCHANGED caVars
  /\ pc[g] = "entered"
  /\ nextId <= MaxWatches
  /\ watching' = TRUE
  /\ registered' = registered \cup {nextId}
  /\ converged' = [converged EXCEPT ![nextId] = FALSE]
  /\ cuid' = [cuid EXCEPT ![g] = nextId]
  /\ nextId' = nextId + 1
  /\ defers' = [defers EXCEPT ![g] =
                 << [call |-> "SetWatching", arg |-> 0],
                    [call |-> "Unregister", arg |-> nextId] >>]
  /\ startup' = [startup EXCEPT ![g] = FALSE]
  /\ pc' = [pc EXCEPT ![g] = "newrec"]
  /\ UNCHANGED <<recWatcher, unregistered, open, closed, crashed, send, armed,
                 notified, startups, lastRet, hist>>

\* Lines 189-193: obj.recWatcher, err = recwatch.NewRecWatcher(...); the
\* watcher made carries the number of the UID of the invocation.
WatchNewRecWatcher(g) ==
  /\ ~crashed
  /\ UNCHANGED caVars
  /\ UNCHANGED hist
  /\ pc[g] = "newrec"
  /\ \/ /\ recWatcher' = cuid[g]
        /\ open' = open \cup {cuid[g]}
        /\ pc' = [pc EXCEPT ![g] = "defer"]
        /\ UNCHANGED <<watching, registered, converged, unregistered, closed,
                       nextId, crashed, cuid, startup, send, defers, armed,
                       notified, startups, lastRet>>
     \/ LET S == RunDefers(defers[g], Shared)
        IN  /\ recWatcher' = 0
            /\ Unwind(g, S)
            /\ pc' = [pc EXCEPT ![g] = "idle"]
            /\ lastRet' = [lastRet EXCEPT ![g] =
                            [path |-> "newrec", err |-> TRUE, watching |-> S.watching]]
            /\ UNCHANGED nextId

\* Lines 194-197: defer obj.recWatcher.Close() reads the field; send, exit.
WatchDeferClose(g) ==
  /\ ~crashed
  /\ UNCHANGED caVars
  /\ pc[g] = "defer"
  /\ defers' = [defers EXCEPT ![g] = Append(@, [call |-> "Close", arg |-> recWatcher])]
  /\ send' = [send EXCEPT ![g] = FALSE]
  /\ pc' = [pc EXCEPT ![g] = "select"]
  /\ armed' = [armed EXCEPT ![g] = 0]
  /\ UNCHANGED <<watching, recWatcher, registered, converged, unregistered,
                 open, closed, nextId, crashed, cuid, startup, notified,
                 startups, lastRet, hist>>

\* Mutant of WatchRecEvent: the event does not mark the UID unconverged.
WatchRecEvent_KeepsConverged(g) ==
  /\ ~crashed
  /\ UNCHANGED caVars
  /\ pc[g] = "select"
  /\ recWatcher # 0
  /\ \/ /\ Return(g, "shutdown", FALSE, converged)
        /\ Handled(g, "shutdown", converged, FALSE, FALSE)
     \/ /\ recWatcher \in open
        /\ Return(g, "recerr", TRUE, converged)
        /\ Handled(g, "recerr", converged, FALSE, FALSE)
     \/ /\ recWatcher \in open
        /\ Loop(g, converged, TRUE)
        /\ Handled(g, "rec", converged, TRUE, TRUE)
        /\ UNCHANGED <<startup, notified, startups>>

\* Lines 202-211: an event of the watcher obj.recWatcher points to, or its
\* channel shut down.
WatchRecEvent(g) ==
  /\ ~crashed
  /\ UNCHANGED caVars
  /\ pc[g] = "select"
  /\ recWatcher # 0
  /\ \/ /\ Return(g, "shutdown", FALSE, converged)
        /\ Handled(g, "shutdown", converged, FALSE, FALSE)
     \/ /\ recWatcher \in open
        /\ Return(g, "recerr", TRUE, SetConverged(g, FALSE))
        /\ Handled(g, "recerr", SetConverged(g, FALSE), FALSE, FALSE)
     \/ /\ recWatcher \in open
        /\ Loop(g, SetConverged(g, FALSE), TRUE)
        /\ Handled(g, "rec", SetConverged(g, FALSE), TRUE, TRUE)
        /\ UNCHANGED <<startup, notified, startups>>

\* obj.ReadEvent(&event): (exit, send).
ReadEvent == [exit : BOOLEAN, send : BOOLEAN]

\* Lines 213-218: an event of the engine.
WatchEvent(g) ==
  /\ ~crashed
  /\ UNCHANGED caVars
  /\ pc[g] = "select"
  /\ recWatcher # 0
  /\ \E ev \in ReadEvent :
       IF ev.exit
         THEN /\ Return(g, "exit", FALSE, SetConverged(g, FALSE))
              /\ Handled(g, "exit", SetConverged(g, FALSE), FALSE, ev.send)
         ELSE /\ Loop(g, SetConverged(g, FALSE), ev.send)
              /\ Handled(g, "ctl", SetConverged(g, FALSE), FALSE, ev.send)
              /\ UNCHANGED <<startup, notified, startups>>

\* Lines 220-222: the converged timer; continue.
WatchConvergedTimer(g) ==
  /\ ~crashed
  /\ UNCHANGED caVars
  /\ pc[g] = "select"
  /\ recWatcher # 0
  /\ Loop(g, SetConverged(g, TRUE), FALSE)
  /\ Handled(g, "conv", SetConverged(g, TRUE), FALSE, FALSE)
  /\ UNCHANGED <<startup, notified, startups>>

\* Lines 181-187: Startup(block) is nil, which blocks for ever, once startup
\* is set; else a channel that delivers StartupDelay after it was made.
StartupReady(g) == ~startup[g] /\ armed[g] >= StartupDelay

\* Mutant of WatchStartup: the timer does not mark the UID unconverged.
WatchStartup_KeepsConverged(g) ==
  /\ ~crashed
  /\ UNCHANGED caVars
  /\ pc[g] = "select"
  /\ recWatcher # 0
  /\ StartupReady(g)
  /\ startups' = [startups EXCEPT ![g] = @ + 1]
  /\ Loop(g, converged, TRUE)
  /\ Handled(g, "startup", converged, FALSE, TRUE)
  /\ UNCHANGED <<startup, notified>>

\* Lines 224-226: the startup timer.
WatchStartup(g) ==
  /\ ~crashed
  /\ UNCHANGED caVars
  /\ pc[g] = "select"
  /\ recWatcher # 0
  /\ StartupReady(g)
  /\ startups' = [startups EXCEPT ![g] = @ + 1]
  /\ Loop(g, SetConverged(g, FALSE), TRUE)
  /\ Handled(g, "startup", SetConverged(g, FALSE), FALSE, TRUE)
  /\ UNCHANGED <<startup, notified>>

\* obj.DoSend(processChan, ""): (exit, err); err is the NACK.
DoSend == [exit : BOOLEAN, err : BOOLEAN]

\* Mutant of WatchSend: startup is not set.
WatchSend_KeepsStartup(g) ==
  /\ ~crashed
  /\ UNCHANGED caVars
  /\ pc[g] = "send"
  /\ send[g]
  /\ \E r \in DoSend :
       /\ Sent(g, r)
       /\ IF r.exit \/ r.err
            THEN Return(g, IF r.err THEN "nack" ELSE "sendexit", r.err, converged)
            ELSE /\ Loop(g, converged, FALSE)
                 /\ notified' = [notified EXCEPT ![g] = TRUE]
                 /\ UNCHANGED <<startup, startups>>

\* Mutant of WatchSend: the error DoSend returns is not looked at.
WatchSend_IgnoresNack(g) ==
  /\ ~crashed
  /\ UNCHANGED caVars
  /\ pc[g] = "send"
  /\ send[g]
  /\ \E r \in DoSend :
       /\ Sent(g, r)
       /\ IF r.exit
            THEN Return(g, "sendexit", FALSE, converged)
            ELSE /\ Loop(g, converged, FALSE)
                 /\ startup' = [startup EXCEPT ![g] = TRUE]
                 /\ notified' = [notified EXCEPT ![g] = TRUE]
                 /\ UNCHANGED startups

\* Lines 230-236: startup finished, the send, and what the engine answers.
WatchSend(g) ==
  /\ ~crashed
  /\ UNCHANGED caVars
  /\ pc[g] = "send"
  /\ send[g]
  /\ \E r \in DoSend :
       /\ Sent(g, r)
       /\ IF r.exit \/ r.err
            THEN Return(g, IF r.err THEN "nack" ELSE "sendexit", r.err, converged)
            ELSE /\ Loop(g, converged, FALSE)
                 /\ startup' = [startup EXCEPT ![g] = TRUE]
                 /\ notified' = [notified EXCEPT ![g] = TRUE]
                 /\ UNCHANGED startups

\* Line 200-202: obj.recWatcher.Events() on a nil obj.recWatcher: the
\* goroutine panics, its deferred calls run and the program ends.
WatchNilPanic(g) ==
  /\ ~crashed
  /\ UNCHANGED caVars
  /\ pc[g] = "select"
  /\ recWatcher = 0
  /\ Unwind(g, [RunDefers(defers[g], Shared) EXCEPT !.crashed = TRUE])
  /\ pc' = [pc EXCEPT ![g] = "panic"]
  /\ UNCHANGED <<recWatcher, nextId, lastRet, hist>>

Min(a, b) == IF a < b THEN a ELSE b

\* Time passes while a caller waits in the select with the startup timer
\* running.
Tick ==
  /\ ~crashed
  /\ UNCHANGED caVars
  /\ \E g \in Callers : pc[g] = "select" /\ ~startup[g] /\ armed[g] < StartupDelay
  /\ armed' = [g \in Callers |->
                IF pc[g] = "select" /\ ~startup[g]
                  THEN Min(armed[g] + TickMs, StartupDelay) ELSE armed[g]]
  /\ UNCHANGED <<watching, recWatcher, registered, converged, unregistered,
                 open, closed, nextId, crashed, pc, cuid, startup, send,
                 defers, notified, startups, lastRet, hist>>

\* ---------------------------------------------------------- specifications
vars == <<caVars, wVars>>

\* CheckApply on a resource, with the token changed from outside.
Init == InitCheckApply /\ InitWatch

Next ==
  \/ \E apply \in BOOLEAN, refresh \in BOOLEAN : CheckApply(apply, refresh)
  \/ ExternalChange

Spec == Init /\ [][Next]_vars

\* Watch called by the goroutines of Callers on one resource.
InitW ==
  /\ InitWatch
  /\ InitCheckApply
  /\ Length = MaxLength /\ Saved /\ CheckRecovery /\ file = NoFile

NextW ==
  \/ \E g \in Callers : WatchCall(g)
  \/ \E g \in Callers : WatchEnter(g)
  \/ \E g \in Callers : WatchNewRecWatcher(g)
  \/ \E g \in Callers : WatchDeferClose(g)
  \/ \E g \in Callers : WatchRecEvent(g)
  \/ \E g \in Callers : WatchEvent(g)
  \/ \E g \in Callers : WatchConvergedTimer(g)
  \/ \E g \in Callers : WatchStartup(g)
  \/ \E g \in Callers : WatchSend(g)
  \/ \E g \in Callers : WatchNilPanic(g)
  \/ Tick

SpecWatch == InitW /\ [][NextW]_vars

\* check() and generate() called on a resource of every configuration.
InitFn ==
  /\ InitWatch
  /\ Length \in 0..MaxLength
  /\ Saved \in BOOLEAN
  /\ CheckRecovery = FALSE
  /\ Password = NilPtr
  /\ file = NoFile
  /\ ioFault = FALSE
  /\ settled = "none"
  /\ last = NoCall
  /\ input \in CheckValues(Length)
  /\ returned = NoResult

NextFn ==
  \/ Check
  \/ Generate

SpecFn == InitFn /\ [][NextFn]_vars

\* ------------------------------------------------------ CheckApply claims
\* The no-op fixed point as the claims describe it, on what a call started
\* from: o is the observation of that state.
FixedPoint(refresh, o) ==
  /\ ~refresh
  /\ o.exists
  /\ o.valid
  /\ ~(Saved /\ o.empty)
  /\ Saved => ~o.differs

\* C1: CheckApply returns checkOK=true only from the no-op fixed point (no
\* refresh, the token exists and is readable, the stored value is accepted,
\* not saved mode with an empty stored value, in saved mode the cached value
\* nil or equal to the stored value), and then with no error and with neither
\* storage nor the cached value changed; a call that follows one that
\* returned checkOK=true, with no refresh and no external change between,
\* returns checkOK=true again; a call that generated, wrote or changed
\* anything returns checkOK=false.
C1_NoOpFixedPoint ==
  last.called =>
    /\ last.checkOK =>
         /\ last.err = "nil"
         /\ ~last.pre.fault
         /\ FixedPoint(last.refresh, last.pre)
         /\ ~last.fileChanged /\ ~last.cacheChanged
         /\ ~last.generated /\ ~last.wrote
    /\ (last.prev = "ok" /\ ~last.refresh) =>
         (last.checkOK /\ ~last.fileChanged /\ ~last.cacheChanged)
    /\ (last.fileChanged \/ last.cacheChanged \/ last.generated \/ last.wrote) =>
         ~last.checkOK

C1_Witness ==
  /\ last.called /\ last.apply /\ last.checkOK /\ last.prev = "ok"
  /\ Saved /\ Length = 2 /\ ~Password.nil

\* C2: for a target length above 0, the call that follows a
\* CheckApply(apply=true) that returned without error, with no refresh and no
\* external change between, returns checkOK=true and changes neither storage
\* nor the cached value; and a CheckApply(apply=true) that returned without
\* error leaves a token that exists and is accepted.
C2_OneStepConvergence ==
  (last.called /\ Length > 0) =>
    /\ (last.prev \in {"applied", "ok"} /\ ~last.refresh) =>
         (last.checkOK /\ last.err = "nil" /\ ~last.fileChanged /\ ~last.cacheChanged)
    /\ (last.apply /\ last.err = "nil") =>
         (file.exists /\ Accepted(Stored(file)))

C2_Witness ==
  /\ last.called /\ last.prev = "applied" /\ ~last.refresh /\ last.checkOK
  /\ Saved /\ CheckRecovery /\ Length = 2 /\ ~Password.nil

\* C3: a CheckApply(apply=false) changes neither the persisted token (nor
\* whether it exists) nor the cached value, generates nothing and writes
\* nothing; when it ends without error and the state it started from is not
\* the fixed point (a refresh, a missing token, a generation or a write is
\* pending) it returns checkOK=false; the token changes in a call only
\* under apply=true.
C3_DryRun ==
  last.called =>
    /\ ~last.apply =>
         /\ ~last.fileChanged /\ ~last.cacheChanged
         /\ ~last.generated /\ ~last.wrote
         /\ (last.err = "nil" /\ ~FixedPoint(last.refresh, last.pre)) => ~last.checkOK
    /\ last.fileChanged => last.apply

C3_Witness ==
  /\ last.called /\ ~last.apply /\ last.err = "nil" /\ ~last.checkOK
  /\ ~last.pre.exists /\ ~file.exists

\* Generation is needed: a refresh, a missing token, a rejected stored value
\* or, in saved mode, an empty one.
NeedsGenerate(refresh, o) ==
  refresh \/ ~o.exists \/ ~o.valid \/ (Saved /\ o.empty)

\* C5: a CheckApply that ends with a read, check or generate error returns
\* checkOK=false and has changed neither the persisted token nor the cached
\* value, under apply=true and apply=false; it ends with the read error when
\* storage is unreadable, with the check error when the stored value is
\* rejected and recovery is off, and with the generate error when
\* apply=true needs a generation and the target length is 0.
C5_FatalErrorsChangeNothing ==
  last.called =>
    /\ last.err \in {"read", "check", "generate"} =>
         (~last.checkOK /\ ~last.fileChanged /\ ~last.cacheChanged /\ ~last.wrote)
    /\ last.pre.fault => last.err = "read"
    /\ (~last.pre.fault /\ last.pre.exists /\ ~last.pre.valid /\ ~CheckRecovery) =>
         last.err = "check"
    /\ ( /\ ~last.pre.fault
         /\ last.pre.exists => last.pre.valid
         /\ last.apply /\ Length = 0
         /\ NeedsGenerate(last.refresh, last.pre) ) =>
         last.err = "generate"

C5_Witness ==
  /\ last.called /\ last.apply /\ last.err = "generate"
  /\ Length = 2 /\ Saved /\ ~Password.nil /\ file.exists

\* C6: when the write inside CheckApply(apply=true) fails, storage is as it
\* was before the call (the old token, still there) or holds a token that
\* reads back as the complete new value, and in saved mode the cached value
\* is the value storage holds.
C6_WriteAtomic ==
  (last.called /\ last.err = "write") =>
    /\ \/ ~last.fileChanged
       \/ file.exists /\ Stored(file) = (IF Saved THEN Password.val ELSE <<>>)
    /\ (Saved /\ ~Password.nil) => (file.exists /\ Stored(file) = Password.val)

Active == {g \in Callers : pc[g] \in {"newrec", "defer", "select", "send"}}

InLoop == {g \in Callers : pc[g] \in {"select", "send"}}

\* C4: every Watch invocation that entered Watching and returned left the
\* watching flag cleared; the UID it registered was unregistered exactly once
\* and no UID of a finished invocation is registered; the sub-watcher it
\* created is closed.
C4_ScopedRelease ==
  ~crashed =>
    /\ \A g \in Callers :
         lastRet[g].path \notin {"none", "already"} => ~lastRet[g].watching
    /\ registered \subseteq {cuid[g] : g \in Active}
    /\ \A u \in Ids :
         /\ unregistered[u] <= 1
         /\ (u < nextId /\ u \notin {cuid[g] : g \in Active}) => unregistered[u] = 1
    /\ open \subseteq {cuid[g] : g \in Active}

\* C8: the startup case is ready only while no notify was attempted since
\* Watch entry, it is taken at most once in an invocation, and once a notify
\* was attempted, whatever caused it, startup is set, which blocks the case
\* for the rest of the loop.
C8_StartupOneShot ==
  \A g \in Callers :
    /\ (pc[g] = "select" /\ StartupReady(g)) => ~notified[g]
    /\ startups[g] <= 1
    /\ notified[g] => (startup[g] /\ ~StartupReady(g))
    /\ (startups[g] = 1 /\ pc[g] = "select") => notified[g]

C8_Witness ==
  \E g \in Callers :
    /\ pc[g] = "select" /\ startups[g] = 1 /\ notified[g] /\ startup[g]
    /\ converged[cuid[g]]

\* C9: the startup delay runs from Watch entry: while a Watch invocation is
\* in its loop and has attempted no notify, no event it handles restarts the
\* startup timer, so the time the timer has run never goes down.
C9_StartupFromEntry ==
  [][\A g \in Callers :
       (pc[g] = "select" /\ pc'[g] = "select" /\ ~startup[g] /\ ~startup'[g])
         => armed'[g] >= armed[g]]_vars

\* C10: at most one caller is inside the Watch loop at a time, and at most
\* one convergence UID of the resource is registered at a time.
C10_SingleWatch ==
  /\ Cardinality(InLoop) <= 1
  /\ Cardinality(registered) <= 1

\* C11: a Watch call that finds the watching flag set returns at once with
\* no error: the flag stays set, no UID is registered or unregistered, no
\* sub-watcher is made or closed, nothing is sent, and the caller is outside
\* Watch again, so the running Watch stays registered and flagged.
C11_AlreadyWatching ==
  [][\A g \in Callers :
       (lastRet[g].path # "already" /\ lastRet'[g].path = "already")
         => /\ watching /\ watching'
            /\ ~lastRet'[g].err /\ lastRet'[g].watching
            /\ pc[g] = "idle" /\ pc'[g] = "idle"
            /\ UNCHANGED <<recWatcher, registered, converged, unregistered,
                           open, closed, nextId, cuid, send, defers, notified>>
            /\ \A h \in Callers \ {g} : pc'[h] = pc[h]]_vars

C11_Witness ==
  \E g \in Callers :
    /\ lastRet[g].path = "already" /\ lastRet[g].watching /\ pc[g] = "idle"
    /\ \E h \in Callers \ {g} : pc[h] \in {"select", "send"} /\ cuid[h] \in registered
    /\ watching

\* C12: check(value) returns no error exactly when the value is accepted
\* (token-only mode and empty, or saved mode, of the target length and all
\* characters in the alphabet), for values of every length; else it names
\* the unexpected non-empty token, the length mismatch or a bad character.
C12_CheckAccepts ==
  returned.fn = "check" =>
    /\ (returned.err = "nil") <=> Accepted(input)
    /\ (~Saved /\ input # <<>>) => returned.err = "notempty"
    /\ (Saved /\ Len(input) # Length) => returned.err = "length"
    /\ (Saved /\ Len(input) = Length /\ ~Accepted(input)) => returned.err = "char"

\* C13: for every target length above 0 the passwords generate() can return
\* are exactly the strings of that length over the 52 letters of the
\* alphabet: every letter can occur at every position.
C13_GenerateRange ==
  (returned.fn = "generate" /\ Length > 0) =>
    /\ \A v \in returned.vals : Len(v) = Length /\ \A i \in 1..Len(v) : InAlphabet(v[i])
    /\ \A i \in 1..Length : \A j \in 1..Len(alphabet) :
         \E v \in returned.vals : v[i] = alphabet[j]
    /\ Cardinality(returned.vals) = Cardinality([1..Length -> 1..Len(alphabet)])

\* A caller that is outside Watch: it returned, or died in a deferred call.
Gone(g) == pc[g] \in {"idle", "panic"}

\* C14: a change-source event marks the UID unconverged; with an error Watch
\* returns that error, having neither marked the state dirty nor sent; without
\* one the state is marked dirty and exactly one notify is attempted before
\* the loop is at its select again.
C14_ChangeSourceEvent ==
  \A g \in Callers :
    /\ hist[g].src = "rec" =>
         /\ ~hist[g].conv /\ hist[g].dirty /\ hist[g].sched
         /\ pc[g] = "send" => (send[g] /\ hist[g].sends = 0)
         /\ pc[g] = "select" => (hist[g].sends = 1 /\ hist[g].ans = "ack")
         /\ Gone(g) => (hist[g].sends = 1 /\ hist[g].ans # "none")
    /\ hist[g].src = "recerr" =>
         /\ ~hist[g].conv /\ ~hist[g].dirty /\ hist[g].sends = 0
         /\ Gone(g)
         /\ pc[g] = "idle" => (lastRet[g].path = "recerr" /\ lastRet[g].err)

C14_Witness ==
  \E g \in Callers, h \in Callers :
    /\ hist[g].src = "rec" /\ pc[g] = "select" /\ hist[g].sends = 1
    /\ hist[h].src = "recerr" /\ pc[h] = "idle" /\ lastRet[h].err

\* C15: an exit control event marks the UID unconverged and ends Watch on
\* that wake-up with no error and no notify, also when the event asks for a
\* send; the UID the invocation registered is then unregistered and the
\* sub-watcher it made is closed, and it handles nothing more.
C15_ExitEvent ==
  \A g \in Callers :
    hist[g].src = "exit" =>
      /\ ~hist[g].conv /\ hist[g].sends = 0
      /\ Gone(g)
      /\ pc[g] = "idle" =>
           /\ lastRet[g].path = "exit" /\ ~lastRet[g].err /\ ~lastRet[g].watching
           /\ hist[g].uid \notin registered
           /\ hist[g].uid \notin open

\* C16: when DoSend returns an error Watch returns that error, when it
\* signals exit Watch returns no error; either way the invocation handles
\* no further source and sends nothing more.
C16_SendRejected ==
  \A g \in Callers :
    /\ hist[g].ans = "nack" =>
         /\ Gone(g) /\ hist[g].sends = 1
         /\ pc[g] = "idle" => (lastRet[g].path = "nack" /\ lastRet[g].err)
    /\ hist[g].ans = "exit" =>
         /\ Gone(g) /\ hist[g].sends = 1
         /\ pc[g] = "idle" => (lastRet[g].path = "sendexit" /\ ~lastRet[g].err)
    /\ (pc[g] = "idle" /\ lastRet[g].path \in {"nack", "sendexit"})
         => hist[g].ans = (IF lastRet[g].err THEN "nack" ELSE "exit")

C16_Witness ==
  \E g \in Callers, h \in Callers :
    /\ hist[g].ans = "nack" /\ pc[g] = "idle" /\ lastRet[g].err
    /\ hist[h].ans = "exit" /\ pc[h] = "idle" /\ ~lastRet[h].err

\* C19: a converged-timer tick marks the UID converged, sends nothing and
\* leaves the loop at its select; every other source handled marks it
\* unconverged; the UID of a Watch in its loop is converged only after such
\* a tick, and never when a notify is about to be sent.
C19_ConvergedProtocol ==
  \A g \in Callers :
    /\ pc[g] = "send" => ~converged[cuid[g]]
    /\ hist[g].src = "conv" =>
         /\ hist[g].conv /\ ~hist[g].sched /\ hist[g].sends = 0
         /\ pc[g] \in {"select", "panic"}
    /\ hist[g].src \in {"rec", "recerr", "ctl", "exit", "startup"} => ~hist[g].conv
    /\ (pc[g] \in {"select", "send"} /\ converged[cuid[g]]) => hist[g].src = "conv"
    /\ (pc[g] \in {"select", "send"} /\ hist[g].src # "none")
         => converged[cuid[g]] = hist[g].conv

C19_Witness ==
  \E g \in Callers :
    /\ Active = {g}
    /\ pc[g] = "select" /\ hist[g].src = "conv" /\ converged[cuid[g]]
    /\ notified[g] /\ startups[g] = 1

\* C20: at the select of the loop the send variable is false; between two
\* selects DoSend is called once when the source handled scheduled a notify
\* and not at all when it did not, and the send is made before anything else
\* is handled.
C20_NoPendingNotify ==
  \A g \in Callers :
    /\ hist[g].sends <= 1
    /\ pc[g] = "select" =>
         /\ ~send[g]
         /\ hist[g].sends = (IF hist[g].sched THEN 1 ELSE 0)
    /\ pc[g] = "send" => (send[g] /\ hist[g].sched /\ hist[g].sends = 0)
    /\ (hist[g].sched /\ hist[g].sends = 0) => (pc[g] = "send" \/ Gone(g))

C20_Witness ==
  \E g \in Callers :
    /\ Active = {g}
    /\ pc[g] = "select" /\ hist[g].src = "ctl" /\ hist[g].sched
    /\ hist[g].sends = 1 /\ hist[g].ans = "ack" /\ ~send[g]

\* C17: in saved mode, when the token exists and is accepted, no password is
\* to be generated and the cached password is not nil and differs from the
\* stored one, CheckApply(apply=true) that returns without error leaves the
\* cached password as it was and storage holding that cached password.
C17_MemoryToDisk ==
  ( /\ last.called /\ last.apply /\ ~last.refresh /\ last.err = "nil"
    /\ Saved
    /\ ~last.pre.fault /\ last.pre.valid /\ ~last.pre.empty /\ last.pre.differs )
    => /\ ~last.generated
       /\ ~last.cacheChanged
       /\ file.exists /\ ~Password.nil /\ Stored(file) = Password.val

\* C18: in saved mode, after every CheckApply(apply=true) that returned
\* without error and with checkOK false, the cached password is not nil and
\* equals the stored one; a password generated in the call was written in
\* the same call.
C18_CacheMatchesStorage ==
  (last.called /\ last.apply /\ last.err = "nil" /\ ~last.checkOK /\ Saved)
    => /\ ~Password.nil
       /\ file.exists /\ Stored(file) = Password.val
       /\ last.generated => last.wrote

C18_Witness ==
  /\ last.called /\ last.apply /\ last.refresh /\ last.err = "nil" /\ ~last.checkOK
  /\ Saved /\ Length > 0
  /\ last.pre.valid /\ ~last.pre.differs /\ last.generated /\ last.wrote
  /\ Stored(file) = Password.val

====
